---- MODULE Spec2Model ----
(***************************************************************************)
(* A model of the two data structures of the library:                      *)
(*   Python/Queue.py    class Queue   (a FIFO queue made of two stacks)    *)
(*   Python/Segtree.py  class Segtree (a padded, heap-indexed segment tree)*)
(* Python lists are modelled as they are indexed in the source: the two    *)
(* stacks as sequences whose last element is the top, seg and span as      *)
(* functions on 0..l-1.                                                    *)
(***************************************************************************)
EXTENDS Integers, Sequences, FiniteSets, TLC

\* ------------------------------------------------------------------ bounds
\* Longest queue, the items that are enqueued, and the enq calls counted
\* between two clears.
MaxQueue == 4
MaxItem == 2
MaxEnq == 5
\* Longest underlying array of a segment tree and the values stored in it.
MaxN == 4
MaxVal == 2
\* Longest underlying array of the trees whose sizes are checked.
MaxSize == 128

Items == 1..MaxItem
Vals == 1..MaxVal

\* Python's None: a value that is no item of a queue and no element of T.
None == 0

VARIABLES
    \* Queue: self.stack_1, self.stack_2, self.n
    stack_1, stack_2, qn,
    \* Segtree: self.n, self.l, self.seg, self.span, and the op given to __init__
    n, l, seg, span, op,
    \* the call made last, what it returned and what it raised
    call, ret, exc,
    \* history: the items enqueued and not yet dequeued or cleared, oldest
    \* first; the enq calls and the successful deq calls since the last clear
    fifo, enqs, deqs,
    \* history: the items moved from stack 1 to stack 2 since the last clear
    moves,
    \* history: the underlying array of the segment tree as the calls changed it
    a

qvars == <<stack_1, stack_2, qn, fifo, enqs, deqs, moves>>
svars == <<n, l, seg, span, op, a>>
vars == <<stack_1, stack_2, qn, n, l, seg, span, op, call, ret, exc,
          fifo, enqs, deqs, moves, a>>

\* ------------------------------------------------------------- exceptions
\* No exception was raised by the call.
NoExc == [type |-> "none", msg |-> {}]
\* An IndexError; msg lists the values its message is formatted from, each
\* with the name it has in the source.
IndexError(msg) == [type |-> "IndexError", msg |-> msg]

\* list.pop() of the top, and the list left.
Top(s) == s[Len(s)]
Pop(s) == SubSeq(s, 1, Len(s) - 1)

\* ------------------------------------------------------------------ Queue
\* Queue.__init__
QueueNew ==
    /\ stack_1 = <<>>
    /\ stack_2 = <<>>
    /\ qn = 0
    /\ fifo = <<>>
    /\ enqs = 0
    /\ deqs = 0
    /\ moves = 0

\* Transfer with a bug: stack 1 is moved onto stack 2 in its own order.
Transfer_NoReverse(s1, s2) == <<<<>>, s2 \o s1>>

\* The while loop of deq: pops each element of stack 1 and appends it to
\* stack 2 until stack 1 is empty. Gives the pair of stacks after it.
RECURSIVE Transfer(_, _)
Transfer(s1, s2) ==
    IF Len(s1) # 0
    THEN Transfer(Pop(s1), Append(s2, Top(s1)))
    ELSE <<s1, s2>>

\* enq with a bug: the count is not incremented.
Enq_NoCount(k) ==
    /\ Len(stack_1) + Len(stack_2) < MaxQueue
    /\ enqs < MaxEnq
    /\ qn' = qn
    /\ stack_1' = Append(stack_1, k)
    /\ stack_2' = stack_2
    /\ call' = [name |-> "enq", args |-> <<k>>]
    /\ ret' = None
    /\ exc' = NoExc
    /\ fifo' = Append(fifo, k)
    /\ enqs' = enqs + 1
    /\ deqs' = deqs
    /\ moves' = moves
    /\ UNCHANGED svars

\* Queue.enq(k)
Enq(k) ==
    /\ Len(stack_1) + Len(stack_2) < MaxQueue
    /\ enqs < MaxEnq
    /\ qn' = qn + 1
    /\ stack_1' = Append(stack_1, k)
    /\ stack_2' = stack_2
    /\ call' = [name |-> "enq", args |-> <<k>>]
    /\ ret' = None
    /\ exc' = NoExc
    /\ fifo' = Append(fifo, k)
    /\ enqs' = enqs + 1
    /\ deqs' = deqs
    /\ moves' = moves
    /\ UNCHANGED svars

\* The transfer of deq with a bug: it is made whether stack 2 is empty or not.
DeqStacks_Always == Transfer(stack_1, stack_2)

\* Queue.deq(): the stacks after the transfer, when stack 2 is empty.
DeqStacks ==
    IF Len(stack_2) = 0 THEN Transfer(stack_1, stack_2)
                        ELSE <<stack_1, stack_2>>

\* Queue.deq(): the items the transfer appended to stack 2.
DeqMoves == Len(DeqStacks[2]) - Len(stack_2)

\* deq with a bug: after the pop, what is left on stack 2 is moved back onto
\* stack 1, so that every deq moves the whole queue twice.
Deq_MovesBack ==
    /\ call' = [name |-> "deq", args |-> <<>>]
    /\ IF qn = 0
       THEN /\ ret' = None
            /\ exc' = NoExc
            /\ UNCHANGED <<stack_1, stack_2, qn, moves>>
       ELSE /\ qn' = qn - 1
            /\ stack_1' = Transfer(Pop(DeqStacks[2]), DeqStacks[1])[2]
            /\ stack_2' = <<>>
            /\ ret' = Top(DeqStacks[2])
            /\ exc' = NoExc
            /\ moves' = moves + DeqMoves + Len(DeqStacks[2]) - 1
    /\ fifo' = IF fifo = <<>> THEN fifo ELSE Tail(fifo)
    /\ deqs' = IF fifo = <<>> THEN deqs ELSE deqs + 1
    /\ enqs' = enqs
    /\ UNCHANGED svars

\* deq with a bug: the check for an empty queue is missing.
Deq_NoEmptyCheck ==
    /\ call' = [name |-> "deq", args |-> <<>>]
    /\ qn' = qn - 1
    /\ stack_1' = DeqStacks[1]
    /\ IF Len(DeqStacks[2]) = 0
       THEN /\ stack_2' = DeqStacks[2]
            /\ ret' = None
            /\ exc' = IndexError({})
       ELSE /\ stack_2' = Pop(DeqStacks[2])
            /\ ret' = Top(DeqStacks[2])
            /\ exc' = NoExc
    /\ fifo' = IF fifo = <<>> THEN fifo ELSE Tail(fifo)
    /\ deqs' = IF fifo = <<>> THEN deqs ELSE deqs + 1
    /\ enqs' = enqs
    /\ moves' = moves + DeqMoves
    /\ UNCHANGED svars

\* Queue.deq()
Deq ==
    /\ call' = [name |-> "deq", args |-> <<>>]
    /\ IF qn = 0
       THEN /\ ret' = None
            /\ exc' = NoExc
            /\ UNCHANGED <<stack_1, stack_2, qn>>
       ELSE /\ qn' = qn - 1
            /\ stack_1' = DeqStacks[1]
            /\ IF Len(DeqStacks[2]) = 0
               THEN \* list.pop() of an empty list
                    /\ stack_2' = DeqStacks[2]
                    /\ ret' = None
                    /\ exc' = IndexError({})
               ELSE /\ stack_2' = Pop(DeqStacks[2])
                    /\ ret' = Top(DeqStacks[2])
                    /\ exc' = NoExc
    /\ fifo' = IF fifo = <<>> THEN fifo ELSE Tail(fifo)
    /\ deqs' = IF fifo = <<>> THEN deqs ELSE deqs + 1
    /\ enqs' = enqs
    /\ moves' = IF qn = 0 THEN moves ELSE moves + DeqMoves
    /\ UNCHANGED svars

\* clear with a bug: the count is not reset.
Clear_KeepsCount ==
    /\ stack_1' = <<>>
    /\ stack_2' = <<>>
    /\ qn' = qn
    /\ call' = [name |-> "clear", args |-> <<>>]
    /\ ret' = None
    /\ exc' = NoExc
    /\ fifo' = <<>>
    /\ enqs' = 0
    /\ deqs' = 0
    /\ moves' = 0
    /\ UNCHANGED svars

\* Queue.clear()
Clear ==
    /\ stack_1' = <<>>
    /\ stack_2' = <<>>
    /\ qn' = 0
    /\ call' = [name |-> "clear", args |-> <<>>]
    /\ ret' = None
    /\ exc' = NoExc
    /\ fifo' = <<>>
    /\ enqs' = 0
    /\ deqs' = 0
    /\ moves' = 0
    /\ UNCHANGED svars

\* Queue.len(): the value returned.
QueueLen == qn

\* Queue.len()
CallLen ==
    /\ call' = [name |-> "len", args |-> <<>>]
    /\ ret' = QueueLen
    /\ exc' = NoExc
    /\ UNCHANGED qvars
    /\ UNCHANGED svars

\* ---------------------------------------------------------------- Segtree
\* No Segtree was made: the class-level fields, all None.
NoSegtree ==
    /\ n = None
    /\ l = None
    /\ seg = None
    /\ span = None
    /\ op = None
    /\ a = <<>>

\* The join operations given to __init__: the sum of the tests, and the
\* concatenation of decimal numerals without the digit 0 (12 and 1 give 121),
\* which is associative and not commutative.
Ops == {"sum", "cat"}

RECURSIVE Shift(_, _)
Shift(x, y) == IF y = 0 THEN x ELSE Shift(10 * x, y \div 10)

Cat(x, y) == Shift(x, y) + y

\* What a join gives when an operand is no element of T: the op of the
\* caller is defined on T alone (x + y raises on None), and a failed join
\* makes what is joined with it fail.
OpError == -1

\* op(x, y)
Apply(o, x, y) ==
    IF x = None \/ y = None \/ x = OpError \/ y = OpError THEN OpError
    ELSE IF o = "sum" THEN x + y ELSE Cat(x, y)

\* op_none with a bug: only the case of two None is handled.
op_none_Unguarded(o, x, y) ==
    IF x = None /\ y = None THEN None ELSE Apply(o, x, y)

\* op_none of __init__: op made to handle None
op_none(o, x, y) ==
    IF x = None /\ y = None THEN None
    ELSE IF x = None THEN y
    ELSE IF y = None THEN x
    ELSE Apply(o, x, y)

\* The loop of _ceil_log_2 with a bug: every pass clears exact, whatever the
\* bit shifted off.
RECURSIVE ceil_log_2_loop_NeverExact(_, _, _)
ceil_log_2_loop_NeverExact(m, ans, exact) ==
    IF m > 1
    THEN ceil_log_2_loop_NeverExact(m \div 2, ans + 1, FALSE)
    ELSE IF exact THEN ans ELSE ans + 1

\* The while loop of _ceil_log_2, from n = m with ans and exact as given.
RECURSIVE ceil_log_2_loop(_, _, _)
ceil_log_2_loop(m, ans, exact) ==
    IF m > 1
    THEN ceil_log_2_loop(m \div 2, ans + 1, IF m % 2 = 1 THEN FALSE ELSE exact)
    ELSE IF exact THEN ans ELSE ans + 1

\* Segtree._ceil_log_2(n)
ceil_log_2(m) == ceil_log_2_loop(m, 0, TRUE)

RECURSIVE Pow2(_)
Pow2(e) == IF e = 0 THEN 1 ELSE 2 * Pow2(e - 1)

\* The number of leaves with a bug: an empty array is given no leaf.
LeavesOf_ZeroEmpty(len) == IF len = 0 THEN 0 ELSE Pow2(ceil_log_2(len))

\* __init__: the number of leaves (padded) and the number of nodes
LeavesOf(len) == Pow2(ceil_log_2(len))
NodesOf(len) == 2 * LeavesOf(len) - 1

\* __init__: seg and span with their leaves set from the array arr, which has
\* len items (arr[0] .. arr[len-1]). A span [L,R] is the pair <<L,R>>.
LeafSeg(arr, len) ==
    [i \in 0..(NodesOf(len) - 1) |->
        IF i >= LeavesOf(len) - 1 /\ i - (LeavesOf(len) - 1) < len
        THEN arr[i - (LeavesOf(len) - 1)]
        ELSE None]

\* The spans of __init__ with a bug: the unused nodes start as [0:0].
LeafSpan_ZeroPadding(len) ==
    [i \in 0..(NodesOf(len) - 1) |->
        IF i >= LeavesOf(len) - 1 /\ i - (LeavesOf(len) - 1) < len
        THEN <<i - (LeavesOf(len) - 1), i - (LeavesOf(len) - 1) + 1>>
        ELSE <<0, 0>>]

LeafSpan(len) ==
    [i \in 0..(NodesOf(len) - 1) |->
        IF i >= LeavesOf(len) - 1 /\ i - (LeavesOf(len) - 1) < len
        THEN <<i - (LeavesOf(len) - 1), i - (LeavesOf(len) - 1) + 1>>
        ELSE <<len, len>>]

\* __init__: one pass of the loop that fills the non-leaf nodes, for node i of
\* the pair t = <<seg, span>>. Gives the pair after it.
FillPass(o, t, i) ==
    <<[t[1] EXCEPT ![i] = op_none(o, t[1][2*i+1], t[1][2*i+2])],
      [t[2] EXCEPT ![i] = <<t[2][2*i+1][1], t[2][2*i+2][2]>>]>>

\* __init__: the passes of that loop for i = hi, hi-1, ..., lo, in this order.
\* The passes are split in two halves, the upper one made first and its
\* result u handed to the lower one as a value, so that the depth of the
\* evaluation grows with the logarithm of the number of passes.
RECURSIVE FillPasses(_, _, _, _)
FillPasses(o, t, hi, lo) ==
    IF hi < lo THEN t
    ELSE IF hi = lo THEN FillPass(o, t, hi)
    ELSE CHOOSE r \in {FillPasses(o, u, (hi + lo) \div 2, lo) :
                          u \in {FillPasses(o, t, hi, (hi + lo) \div 2 + 1)}} :
            TRUE

\* __init__: the loop that fills the non-leaf nodes bottom up, for
\* i, i-1, ..., 0. Gives the pair <<seg, span>>.
FillUp(o, sg, sp, i) == FillPasses(o, <<sg, sp>>, i, 0)

\* The arrays a Segtree is made from: arr[0] .. arr[len-1], len <= MaxN.
Arrays == UNION {[0..(len - 1) -> Vals] : len \in 0..MaxN}

ArrayLen(arr) == Cardinality(DOMAIN arr)

\* Segtree.__init__(arr, o)
SegtreeNew(arr, o) ==
    /\ n = ArrayLen(arr)
    /\ op = o
    /\ l = NodesOf(ArrayLen(arr))
    /\ seg = FillUp(o, LeafSeg(arr, ArrayLen(arr)), LeafSpan(ArrayLen(arr)),
                    LeavesOf(ArrayLen(arr)) - 2)[1]
    /\ span = FillUp(o, LeafSeg(arr, ArrayLen(arr)), LeafSpan(ArrayLen(arr)),
                     LeavesOf(ArrayLen(arr)) - 2)[2]
    /\ a = arr

\* An outcome of a call: the value returned and the exception raised.
Returns(v) == [val |-> v, exc |-> NoExc]
Raises(e) == [val |-> None, exc |-> e]

\* _help_me_query with a bug: the two partial answers are joined right first.
RECURSIVE help_me_query_Swapped(_, _, _)
help_me_query_Swapped(L, R, i) ==
    IF L = span[i][1] /\ R = span[i][2] THEN Returns(seg[i])
    ELSE IF 2*i + 1 > l - 1 \/ 2*i + 2 > l - 1 THEN Raises(IndexError({}))
    ELSE LET m == span[2*i+1][2] IN
         IF R <= m THEN help_me_query_Swapped(L, R, 2*i+1)
         ELSE IF L >= m THEN help_me_query_Swapped(L, R, 2*i+2)
         ELSE LET ans_L == help_me_query_Swapped(L, m, 2*i+1)
                  ans_R == help_me_query_Swapped(m, R, 2*i+2)
              IN  IF ans_L.exc # NoExc THEN ans_L
                  ELSE IF ans_R.exc # NoExc THEN ans_R
                  ELSE Returns(op_none(op, ans_R.val, ans_L.val))

\* Segtree._help_me_query(L, R, i). Reading span[2*i+1] past the end of the
\* list raises Python's own IndexError.
RECURSIVE help_me_query(_, _, _)
help_me_query(L, R, i) ==
    IF L = span[i][1] /\ R = span[i][2] THEN Returns(seg[i])
    ELSE IF 2*i + 1 > l - 1 \/ 2*i + 2 > l - 1 THEN Raises(IndexError({}))
    ELSE LET m == span[2*i+1][2] IN
         IF R <= m THEN help_me_query(L, R, 2*i+1)
         ELSE IF L >= m THEN help_me_query(L, R, 2*i+2)
         ELSE LET ans_L == help_me_query(L, m, 2*i+1)
                  ans_R == help_me_query(m, R, 2*i+2)
              IN  IF ans_L.exc # NoExc THEN ans_L
                  ELSE IF ans_R.exc # NoExc THEN ans_R
                  ELSE Returns(op_none(op, ans_L.val, ans_R.val))

\* The calls of _help_me_query with a bug: an interval that ends at the border
\* of the two children is not taken as inside the left child.
RECURSIVE help_me_query_calls_Strict(_, _, _)
help_me_query_calls_Strict(L, R, i) ==
    IF L = span[i][1] /\ R = span[i][2] THEN {<<L, R, i>>}
    ELSE IF 2*i + 1 > l - 1 \/ 2*i + 2 > l - 1 THEN {<<L, R, i>>}
    ELSE LET m == span[2*i+1][2] IN
         IF R < m THEN {<<L, R, i>>} \cup help_me_query_calls_Strict(L, R, 2*i+1)
         ELSE IF L >= m
              THEN {<<L, R, i>>} \cup help_me_query_calls_Strict(L, R, 2*i+2)
         ELSE {<<L, R, i>>} \cup help_me_query_calls_Strict(L, m, 2*i+1)
                            \cup help_me_query_calls_Strict(m, R, 2*i+2)

\* Segtree._help_me_query(L, R, i): the calls <<L', R', i'>> of
\* _help_me_query made, this one included. A call that reads span[2*i+1] past
\* the end of the list makes no further call.
RECURSIVE help_me_query_calls(_, _, _)
help_me_query_calls(L, R, i) ==
    IF L = span[i][1] /\ R = span[i][2] THEN {<<L, R, i>>}
    ELSE IF 2*i + 1 > l - 1 \/ 2*i + 2 > l - 1 THEN {<<L, R, i>>}
    ELSE LET m == span[2*i+1][2] IN
         IF R <= m THEN {<<L, R, i>>} \cup help_me_query_calls(L, R, 2*i+1)
         ELSE IF L >= m THEN {<<L, R, i>>} \cup help_me_query_calls(L, R, 2*i+2)
         ELSE {<<L, R, i>>} \cup help_me_query_calls(L, m, 2*i+1)
                            \cup help_me_query_calls(m, R, 2*i+2)

\* The check of query with a bug: an interval that ends at n is refused.
QueryInvalid_OffByOne(L, R) == L < 0 \/ R >= n \/ L >= R

\* query: the check that [L:R] is a valid interval, failed
QueryInvalid(L, R) == L < 0 \/ R > n \/ L >= R

\* The message of query with a bug: the size is left out.
QueryMsg_NoSize(L, R) == {<<"L", L>>, <<"R", R>>}

\* query: what the message of its IndexError is formatted from
QueryMsg(L, R) == {<<"L", L>>, <<"R", R>>, <<"n", n>>}

\* Segtree.query(L, R): the outcome
query(L, R) ==
    IF QueryInvalid(L, R) THEN Raises(IndexError(QueryMsg(L, R)))
    ELSE help_me_query(L, R, 0)

\* The check of update and get with a bug: ind = -n is taken as invalid.
IndInvalid_OffByOne(ind) == ind >= n \/ ind <= -n

\* update and get: the check that ind is a valid index, failed
IndInvalid(ind) == ind >= n \/ ind < -n

\* update and get: what the message of their IndexError is formatted from
IndMsg(ind) == {<<"ind", ind>>}

\* The shift with a bug: every negative index is taken as the last one.
Shifted_Last(ind) == IF ind < 0 THEN n - 1 ELSE ind

\* update and get: if ind < 0, shift it back up to be positive
Shifted(ind) == IF ind < 0 THEN ind + n ELSE ind

\* The loop of update with a bug: it stops below the root.
RECURSIVE UpdateWalk_StopsEarly(_, _)
UpdateWalk_StopsEarly(sg, i) ==
    IF (i-1) \div 2 > 0
    THEN UpdateWalk_StopsEarly([sg EXCEPT ![(i-1) \div 2] =
                        op_none(op, sg[2*((i-1) \div 2) + 1],
                                    sg[2*((i-1) \div 2) + 2])],
                    (i-1) \div 2)
    ELSE sg

\* update: the while loop, from node i of sg up to the root
RECURSIVE UpdateWalk(_, _)
UpdateWalk(sg, i) ==
    IF i > 0
    THEN UpdateWalk([sg EXCEPT ![(i-1) \div 2] =
                        op_none(op, sg[2*((i-1) \div 2) + 1],
                                    sg[2*((i-1) \div 2) + 2])],
                    (i-1) \div 2)
    ELSE sg

\* update with a bug: the leaf is written and no ancestor is recomputed.
UpdateSeg_NoWalk(ind, val) == [seg EXCEPT ![l \div 2 + Shifted(ind)] = val]

\* update with a bug: a negative ind is not shifted before the leaf is found.
UpdateSeg_NoShift(ind, val) ==
    UpdateWalk([seg EXCEPT ![l \div 2 + ind] = val], l \div 2 + ind)

\* update: seg after a valid update(ind, val)
UpdateSeg(ind, val) ==
    UpdateWalk([seg EXCEPT ![l \div 2 + Shifted(ind)] = val],
               l \div 2 + Shifted(ind))

\* Segtree.get(ind): the outcome
get(ind) ==
    IF IndInvalid(ind) THEN Raises(IndexError(IndMsg(ind)))
    ELSE Returns(seg[l \div 2 + Shifted(ind)])

\* A Python slice s[lo:hi] of a list s of len items, 0 <= lo: it stops at the
\* end of the list.
Slice(s, len, lo, hi) ==
    [j \in 0..((IF hi < len THEN hi ELSE len) - lo - 1) |-> s[lo + j]]

\* arr with a bug: the whole bottom layer, padding included.
arr_WithPadding == Slice(seg, l, l \div 2, l)

\* Segtree.arr(): the list returned
arr == Slice(seg, l, l \div 2, l \div 2 + n)

\* The list a after a[ind] = val, ind counting from the back when negative.
ListSet(list, ind, val) ==
    [list EXCEPT ![IF ind < 0 THEN ArrayLen(list) + ind ELSE ind] = val]

\* Segtree.query(L, R)
Query(L, R) ==
    /\ call' = [name |-> "query", args |-> <<L, R>>]
    /\ ret' = query(L, R).val
    /\ exc' = query(L, R).exc
    /\ UNCHANGED svars
    /\ UNCHANGED qvars

\* Segtree.update(ind, val)
Update(ind, val) ==
    /\ call' = [name |-> "update", args |-> <<ind, val>>]
    /\ ret' = None
    /\ IF IndInvalid(ind)
       THEN /\ exc' = IndexError(IndMsg(ind))
            /\ seg' = seg
            /\ a' = a
       ELSE /\ exc' = NoExc
            /\ seg' = UpdateSeg(ind, val)
            /\ a' = ListSet(a, ind, val)
    /\ UNCHANGED <<n, l, span, op>>
    /\ UNCHANGED qvars

\* Segtree.get(ind)
Get(ind) ==
    /\ call' = [name |-> "get", args |-> <<ind>>]
    /\ ret' = get(ind).val
    /\ exc' = get(ind).exc
    /\ UNCHANGED svars
    /\ UNCHANGED qvars

\* Segtree.arr()
Arr ==
    /\ call' = [name |-> "arr", args |-> <<>>]
    /\ ret' = arr
    /\ exc' = NoExc
    /\ UNCHANGED svars
    /\ UNCHANGED qvars

\* ---------------------------------------------------------- specifications
\* A queue and the calls made on it.
QueueInit ==
    /\ QueueNew
    /\ NoSegtree
    /\ call = [name |-> "init", args |-> <<>>]
    /\ ret = None
    /\ exc = NoExc

QueueNext ==
    \/ \E k \in Items : Enq(k)
    \/ Deq
    \/ Clear
    \/ CallLen

QueueSpec == QueueInit /\ [][QueueNext]_vars

\* A segment tree made from an array and a join operation, and the calls made
\* on it. The arguments run over the valid ones and those next to them.
Init ==
    /\ QueueNew
    /\ \E arr0 \in Arrays, o \in Ops : SegtreeNew(arr0, o)
    /\ call = [name |-> "init", args |-> <<>>]
    /\ ret = None
    /\ exc = NoExc

Next ==
    \/ \E L, R \in (-1)..(MaxN + 1) : Query(L, R)
    \/ \E ind \in (-MaxN - 1)..MaxN, val \in Vals : Update(ind, val)
    \/ \E ind \in (-MaxN - 1)..MaxN : Get(ind)
    \/ Arr

Spec == Init /\ [][Next]_vars

\* Segment trees of every size up to MaxSize, made from arrays of equal items
\* under the sum, and the calls that find a leaf from its index.
ConstArray(len) == [i \in 0..(len - 1) |-> 1]

SizeInit ==
    /\ QueueNew
    /\ \E len \in 0..MaxSize : SegtreeNew(ConstArray(len), "sum")
    /\ call = [name |-> "init", args |-> <<>>]
    /\ ret = None
    /\ exc = NoExc

SizeNext ==
    \/ \E ind \in {-1, 0}, val \in Vals : Update(ind, val)
    \/ \E ind \in {-1, 0} : Get(ind)
    \/ Arr

SizeSpec == SizeInit /\ [][SizeNext]_vars

\* ------------------------------------------------------------------ claims
\* C1. Queue FIFO order: in any interleaving of enq, deq and clear, every deq
\* on a non-empty queue returns the earliest-enqueued item that has not yet
\* been dequeued or cleared (so k enq of v1..vk followed by k deq give
\* v1, ..., vk in that order), and raises nothing.
C1_FifoOrder ==
    [][call'.name = "deq" /\ fifo # <<>>
         => ret' = Head(fifo) /\ exc' = NoExc]_vars

\* A deq that returned an item after a transfer and later enq calls: both
\* stacks still hold items.
C1_Witness ==
    /\ call.name = "deq"
    /\ ret # None
    /\ deqs >= 2
    /\ Len(stack_1) >= 1
    /\ Len(stack_2) >= 2

\* C4. Queue length: len() is the number of enq calls minus the number of
\* successful (non-empty) deq calls since creation or the last clear; clear
\* resets it to 0; a deq on an empty queue does not change it.
C4_Length ==
    /\ [](/\ QueueLen = enqs - deqs
          /\ (call.name = "len" => ret = enqs - deqs)
          /\ (call.name = "clear" => QueueLen = 0))
    /\ [][call'.name = "deq" /\ fifo = <<>> => QueueLen' = QueueLen]_vars

\* len() called on a queue that saw enq calls and successful deq calls.
C4_Witness ==
    /\ call.name = "len"
    /\ ret = 2
    /\ enqs = 4
    /\ deqs = 2

\* C5. A deq on a queue that holds no items returns None, raises nothing and
\* leaves both stacks and the count unchanged; and no call on a queue raises
\* (the pop from stack 2 in deq always finds an item when the count is > 0).
C5_EmptyDeq ==
    /\ [](exc = NoExc)
    /\ [][call'.name = "deq" /\ fifo = <<>>
            => /\ ret' = None
               /\ exc' = NoExc
               /\ UNCHANGED <<stack_1, stack_2, qn>>]_vars

\* A deq on a queue emptied by as many successful deq calls as enq calls.
C5_Witness ==
    /\ call.name = "deq"
    /\ ret = None
    /\ enqs >= 2
    /\ deqs = enqs
    /\ stack_1 = <<>>
    /\ stack_2 = <<>>

\* The left fold of the join o over arr[L], arr[L+1], ..., arr[R-1], L < R.
RECURSIVE Fold(_, _, _, _)
Fold(o, list, L, R) ==
    IF R = L + 1 THEN list[L]
    ELSE Apply(o, Fold(o, list, L, R - 1), list[R - 1])

\* The valid intervals [L:R] of a tree of n items: 0 <= L < R <= n.
ValidIntervals == {p \in (0..n) \X (0..n) : p[1] < p[2]}

\* C2. Query correctness: for a tree built from an array with an associative
\* join, commutative or not, query(L,R) is the left fold of the join over
\* a[L], ..., a[R-1] in index order, for all 0 <= L < R <= n: so is every
\* query of the tree as built, and so is what a call of query returned.
C2_QueryIsFold ==
    /\ call.name = "init" =>
         \A p \in ValidIntervals :
            query(p[1], p[2]) = Returns(Fold(op, a, p[1], p[2]))
    /\ call.name = "query" /\ <<call.args[1], call.args[2]>> \in ValidIntervals =>
         /\ exc = NoExc
         /\ ret = Fold(op, a, call.args[1], call.args[2])

\* query(1,3) on three items under the join that is not commutative: the
\* interval is split between the two children of the root.
C2_Witness ==
    /\ call.name = "query"
    /\ call.args = <<1, 3>>
    /\ n = 3
    /\ op = "cat"
    /\ ret = 21

\* C3. Update correctness: after any sequence of valid update calls, get(i)
\* returns the value written last at i (the initial one if none was), and
\* every valid query(L,R) is the fold of the join over the array as updated.
C3_UpdateThenQuery ==
    /\ \A i \in 0..(n - 1) : get(i) = Returns(a[i])
    /\ \A p \in ValidIntervals :
          query(p[1], p[2]) = Returns(Fold(op, a, p[1], p[2]))
    /\ call.name = "update" /\ exc = NoExc =>
          get(call.args[1]) = Returns(call.args[2])

\* update(2, v) on a tree of three items, whose root then holds the join of
\* the array with v at index 2.
C3_Witness ==
    /\ call.name = "update"
    /\ call.args = <<2, 2>>
    /\ exc = NoExc
    /\ n = 3
    /\ op = "cat"
    /\ seg[0] = 112

\* C6. query(L,R) raises the index error exactly when L < 0 or R > n or
\* L >= R, and a query, failed or not, leaves seg, span, n and l as they were.
C6_QueryRange ==
    /\ [](call.name = "query" =>
            (exc.type = "IndexError" <=>
               (call.args[1] < 0 \/ call.args[2] > n \/ call.args[1] >= call.args[2])))
    /\ [](call.name = "query" => exc.type \in {"none", "IndexError"})
    /\ [][call'.name = "query" => UNCHANGED <<seg, span, n, l>>]_vars

\* query(2,2), an empty interval inside the array, raised.
C6_Witness ==
    /\ call.name = "query"
    /\ call.args = <<2, 2>>
    /\ n = 3
    /\ exc.type = "IndexError"

\* C7. update(ind, v) and get(ind) raise the index error exactly when ind is
\* outside -n <= ind <= n-1, and a failed update changes no entry of seg or
\* span, nor n or l.
C7_IndexRange ==
    /\ [](call.name \in {"update", "get"} =>
            (exc.type = "IndexError" <=>
               ~(-n <= call.args[1] /\ call.args[1] <= n - 1)))
    /\ [][call'.name = "update" /\ exc'.type = "IndexError"
            => UNCHANGED <<seg, span, n, l>>]_vars

\* update(n, v) raised.
C7_Witness ==
    /\ call.name = "update"
    /\ n = 3
    /\ call.args[1] = n
    /\ exc.type = "IndexError"

\* C8. Negative indices wrap: for -n <= ind < 0, get(ind) returns what
\* get(ind + n) returns and update(ind, v) leaves the tree that
\* update(ind + n, v) leaves; an update made at ind < 0 is read back at ind + n.
C8_NegativeIndex ==
    /\ \A ind \in (-n)..(-1) :
          /\ get(ind) = get(ind + n)
          /\ \A v \in Vals : UpdateSeg(ind, v) = UpdateSeg(ind + n, v)
    /\ call.name = "update" /\ exc = NoExc /\ call.args[1] < 0 =>
          /\ get(call.args[1] + n) = Returns(call.args[2])
          /\ a[call.args[1] + n] = call.args[2]

\* update(-2, v) on three items wrote index 1; the other items differ from v.
C8_Witness ==
    /\ call.name = "update"
    /\ call.args = <<-2, 2>>
    /\ exc = NoExc
    /\ n = 3
    /\ arr = (0 :> 1 @@ 1 :> 2 @@ 2 :> 1)

\* C9. arr() returns a list of exactly n items whose i-th is get(i), the
\* logical array in its order, with no padding (None) in it.
C9_ArrFidelity ==
    /\ DOMAIN arr = 0..(n - 1)
    /\ \A i \in 0..(n - 1) : get(i) = Returns(arr[i]) /\ arr[i] # None
    /\ arr = a
    /\ call.name = "arr" => ret = a /\ exc = NoExc

\* arr() called on a tree of three items, which has a padding leaf.
C9_Witness ==
    /\ call.name = "arr"
    /\ n = 3
    /\ l = 7
    /\ seg[6] = None
    /\ ret = (0 :> 2 @@ 1 :> 1 @@ 2 :> 2)

\* What an exception carries: the value v under the name it has in the source.
Carries(e, name, v) == <<name, v>> \in e.msg

\* C10 as stated: every error raised by query, update or get is an index
\* error that carries the offending bounds (L and R for query, the index for
\* update and get) and the size n.
C10_CarriesSize ==
    call.name \in {"query", "update", "get"} /\ exc # NoExc =>
        /\ exc.type = "IndexError"
        /\ Carries(exc, "n", n)
        /\ call.name = "query" =>
              Carries(exc, "L", call.args[1]) /\ Carries(exc, "R", call.args[2])
        /\ call.name \in {"update", "get"} => Carries(exc, "ind", call.args[1])

\* C10, amended. Every error raised by query, update or get is an index
\* error; that of query carries L, R and the size n; that of update and get
\* carries the index, and nothing else.
C10_CarriesBounds ==
    call.name \in {"query", "update", "get"} /\ exc # NoExc =>
        /\ exc.type = "IndexError"
        /\ call.name = "query" =>
              /\ Carries(exc, "L", call.args[1])
              /\ Carries(exc, "R", call.args[2])
              /\ Carries(exc, "n", n)
        /\ call.name \in {"update", "get"} =>
              exc.msg = {<<"ind", call.args[1]>>}

\* get(-n-1) raised, with a message that carries the index alone.
C10_Witness ==
    /\ call.name = "get"
    /\ n = 3
    /\ call.args = <<-4>>
    /\ exc = IndexError({<<"ind", -4>>})

\* C11. Queue count: in every reachable state, after any sequence of enq,
\* deq (on an empty queue or not) and clear, the stored count n is
\* len(stack_1) + len(stack_2).
C11_CountIsSize == qn = Len(stack_1) + Len(stack_2)

\* A deq left items on both stacks: three in all.
C11_Witness ==
    /\ call.name = "deq"
    /\ qn = 3
    /\ Len(stack_1) = 2
    /\ Len(stack_2) = 1

\* A list read from its last item to its first.
RECURSIVE Reverse(_)
Reverse(s) == IF s = <<>> THEN <<>> ELSE Append(Reverse(Tail(s)), Head(s))

\* C12. Queue representation: in every reachable state the queue's contents,
\* front to back, are stack_2 read top to bottom followed by stack_1 read
\* bottom to top: the next item to dequeue is on top of stack_2 and the one
\* enqueued last is on top of stack_1.
C12_Representation == fifo = Reverse(stack_2) \o stack_1

\* Two different items wait on stack 2 and two on stack 1.
C12_Witness ==
    /\ stack_2 = <<2, 1>>
    /\ stack_1 = <<2, 1>>
    /\ fifo = <<1, 2, 2, 1>>

\* The number of leaves of the tree, padding included, from its l nodes.
Leaves == (l + 1) \div 2

\* C13. Aggregates: after construction and after any sequence of successful
\* or failed update calls, every internal node i (0 <= i <= k-2) holds
\* op_none(seg[2i+1], seg[2i+2]), and every padding leaf, at the indices
\* k-1+n .. l-1, still holds None.
C13_Aggregates ==
    /\ \A i \in 0..(Leaves - 2) : seg[i] = op_none(op, seg[2*i+1], seg[2*i+2])
    /\ \A i \in (Leaves - 1 + n)..(l - 1) : seg[i] = None

\* An update of the first of three items: the root is the join of the items
\* as updated, and the padding leaf holds None.
C13_Witness ==
    /\ call.name = "update"
    /\ call.args = <<0, 2>>
    /\ exc = NoExc
    /\ n = 3
    /\ op = "cat"
    /\ seg[0] = 211
    /\ seg[6] = None

\* C14. Spans: for every n >= 1, after construction and any calls, the leaf
\* k-1+idx of an index 0 <= idx < n has the span [idx, idx+1), a padding leaf
\* has the empty span [n,n), an internal node i has the span
\* [span[2i+1].L, span[2i+2].R] with span[2i+1].R = span[2i+2].L whenever its
\* right child is not empty, the root has the span [0,n), and seg[i] is the
\* fold of the join over the items in span[i] (None when the span is empty).
C14_Spans ==
    n >= 1 =>
      /\ \A idx \in 0..(n - 1) : span[Leaves - 1 + idx] = <<idx, idx + 1>>
      /\ \A i \in (Leaves - 1 + n)..(l - 1) : span[i] = <<n, n>>
      /\ \A i \in 0..(Leaves - 2) :
            /\ span[i] = <<span[2*i+1][1], span[2*i+2][2]>>
            /\ span[2*i+2][1] # span[2*i+2][2] => span[2*i+1][2] = span[2*i+2][1]
      /\ span[0] = <<0, n>>
      /\ \A i \in 0..(l - 1) :
            seg[i] = IF span[i][1] = span[i][2] THEN None
                     ELSE Fold(op, a, span[i][1], span[i][2])

\* Three items after an update: the right child of the root spans [2,3) with
\* a padding leaf under it, and the root spans [0,3).
C14_Witness ==
    /\ call.name = "update"
    /\ exc = NoExc
    /\ n = 3
    /\ span[0] = <<0, 3>>
    /\ span[2] = <<2, 3>>
    /\ span[6] = <<3, 3>>
    /\ op = "cat"
    /\ seg[1] = 21

\* e is ceil(log2(m)), for m >= 1: the least e with 2^e >= m.
IsCeilLog2(m, e) == Pow2(e) >= m /\ (e = 0 \/ Pow2(e - 1) < m)

RECURSIVE IsPow2(_)
IsPow2(x) == x = 1 \/ (x > 1 /\ x % 2 = 0 /\ IsPow2(x \div 2))

\* C15. Tree sizing: for every n >= 1, _ceil_log_2(n) is ceil(log2(n)), so
\* k = 2^_ceil_log_2(n) is the smallest power of two >= n (n itself when n is
\* a power of two, never 2n) and l = 2k - 1; so the leaf offset l//2 of
\* update, get and arr is k - 1, the offset of the construction: get and arr
\* read the items where __init__ put them.
C15_Sizing ==
    n >= 1 =>
      /\ IsCeilLog2(n, ceil_log_2(n))
      /\ IsPow2(LeavesOf(n)) /\ n <= LeavesOf(n) /\ LeavesOf(n) < 2 * n
      /\ IsPow2(n) => LeavesOf(n) = n
      /\ l = 2 * LeavesOf(n) - 1
      /\ l \div 2 = LeavesOf(n) - 1
      /\ arr = a
      /\ call.name = "get" /\ exc = NoExc =>
            ret = a[IF call.args[1] < 0 THEN n + call.args[1] ELSE call.args[1]]

\* The last of 100 items, written by update(-1, 2) under 255 nodes, read back.
C15_Witness ==
    /\ n = 100
    /\ l = 255
    /\ call.name = "get"
    /\ call.args = <<-1>>
    /\ ret = 2

\* The values of T in sight: those the calls store and those the tree holds.
RealValues == Vals \cup ({seg[i] : i \in 0..(l - 1)} \ {None})

\* C16. The join used internally: None with None gives None, None with x and
\* x with None give x, and x with y gives op(x,y) for real x and y; so the op
\* of the caller is only ever applied to two real operands during
\* construction, update and query (no node and no answer holds a failed
\* join), and a valid query of real items never returns None.
C16_JoinWithNone ==
    /\ op_none(op, None, None) = None
    /\ \A x \in RealValues :
          /\ x # OpError
          /\ op_none(op, None, x) = x
          /\ op_none(op, x, None) = x
    /\ \A x, y \in Vals :
          op_none(op, x, y) = (IF op = "sum" THEN x + y ELSE Cat(x, y))
    /\ \A p \in ValidIntervals :
          /\ query(p[1], p[2]).exc = NoExc
          /\ query(p[1], p[2]).val \notin {None, OpError}

\* query(2,3) on three items is answered by the node whose right child is a
\* padding leaf: the join of the item with None, which is the item.
C16_Witness ==
    /\ call.name = "query"
    /\ call.args = <<2, 3>>
    /\ n = 3
    /\ seg[6] = None
    /\ seg[2] = seg[5]
    /\ ret = seg[5]
    /\ ret = 2

\* C17. Query recursion: for every valid query(L,R) on a tree of n >= 1
\* items, a power of two or not, every call _help_me_query(L', R', i) made
\* has 0 <= i < l, L' < R' and [L', R') inside span[i]; no call reads the
\* children of a leaf (a call at a leaf is an exact match, so nothing is read
\* past the end of seg or span), none enters a node of empty span, and the
\* recursion ends, after at most 4 calls a level below the root.
C17_RecursionSafe ==
    \A p \in ValidIntervals :
       /\ query(p[1], p[2]).exc = NoExc
       /\ \A c \in help_me_query_calls(p[1], p[2], 0) :
             /\ 0 <= c[3] /\ c[3] < l
             /\ c[1] < c[2]
             /\ span[c[3]][1] <= c[1] /\ c[2] <= span[c[3]][2]
             /\ span[c[3]][1] < span[c[3]][2]
             /\ c[3] >= Leaves - 1 => <<c[1], c[2]>> = span[c[3]]
       /\ Cardinality(help_me_query_calls(p[1], p[2], 0))
             <= 4 * ceil_log_2(n) + 1

\* query(1,3) on three items splits at the root: it is answered by the calls
\* at the root, at its two children and at the leaf of index 1.
C17_Witness ==
    /\ call.name = "query"
    /\ call.args = <<1, 3>>
    /\ n = 3
    /\ exc = NoExc
    /\ help_me_query_calls(1, 3, 0)
          = {<<1, 3, 0>>, <<1, 2, 1>>, <<2, 3, 2>>, <<1, 2, 4>>}

\* C18. Queue amortized cost: over any sequence of enq and deq calls the
\* work is linear in the calls: items are moved from stack_1 to stack_2 only
\* in a deq that finds stack_2 empty, which empties stack_1; an item is moved
\* at most once (the items moved and those still on stack_1 are the items
\* enqueued), so the moves never exceed the enq calls. The counts are those
\* since the queue was made or last cleared.
C18_AmortizedCost ==
    /\ [](moves <= enqs /\ moves + Len(stack_1) = enqs)
    /\ [][moves' > moves
            => /\ call'.name = "deq"
               /\ stack_2 = <<>>
               /\ stack_1' = <<>>
               /\ moves' = moves + Len(stack_1)]_vars

\* The second transfer of a queue: five items were enqueued and each moved
\* once, three of them by the deq made last.
C18_Witness ==
    /\ call.name = "deq"
    /\ enqs = 5
    /\ moves = 5
    /\ deqs = 3
    /\ stack_1 = <<>>
    /\ Len(stack_2) = 2

\* The node i and the nodes above it, up to the root.
RECURSIVE Ancestors(_)
Ancestors(i) == IF i <= 0 THEN {0} ELSE {i} \cup Ancestors((i - 1) \div 2)

\* The index an update or a get at ind is about, and its leaf.
Target(ind) == IF ind < 0 THEN ind + n ELSE ind
TargetLeaf(ind) == Leaves - 1 + Target(ind)

\* C19. Frame: a successful update(ind, v) changes seg only at the leaf of
\* the index and at the nodes above it up to the root; every other entry of
\* seg, every other item of the underlying array, all of span, n and l stay
\* as they were; query, get and arr change nothing.
C19_Frame ==
    [][/\ call'.name = "update" /\ exc' = NoExc =>
            /\ \A i \in 0..(l - 1) :
                  i \notin Ancestors(TargetLeaf(call'.args[1])) => seg'[i] = seg[i]
            /\ \A j \in 0..(n - 1) :
                  j # Target(call'.args[1]) => arr'[j] = arr[j]
            /\ UNCHANGED <<span, n, l>>
       /\ call'.name \in {"query", "get", "arr"} =>
            UNCHANGED <<seg, span, n, l>>]_vars

\* update(-2, 2) on four items wrote the leaf 5 and the nodes 2 and 0; the
\* other leaves hold what they held.
C19_Witness ==
    /\ call.name = "update"
    /\ call.args = <<-2, 2>>
    /\ exc = NoExc
    /\ n = 4
    /\ op = "cat"
    /\ seg[5] = 2
    /\ seg[2] = 21
    /\ seg[1] = 11
    /\ seg[0] = 1121

\* C20. The empty array (n = 0): the construction succeeds and gives the
\* tree of k = 1 and l = 1, one node that holds None with the span [0,0);
\* from then on every query(L,R), every update(ind, v) and every get(ind)
\* raises the index error and changes nothing, and arr() is the empty list.
C20_EmptyTree ==
    n = 0 =>
      /\ ceil_log_2(0) = 0
      /\ LeavesOf(0) = 1
      /\ l = 1
      /\ seg = (0 :> None)
      /\ span = (0 :> <<0, 0>>)
      /\ call.name = "init" => exc = NoExc
      /\ \A L, R \in (-1)..(MaxN + 1) : query(L, R).exc.type = "IndexError"
      /\ \A ind \in (-MaxN - 1)..MaxN :
            IndInvalid(ind) /\ get(ind).exc.type = "IndexError"
      /\ call.name \in {"query", "update", "get"} => exc.type = "IndexError"
      /\ arr = <<>>
      /\ call.name = "arr" => ret = <<>> /\ exc = NoExc

\* update(0, v) on the tree of the empty array raised and left the one node.
C20_Witness ==
    /\ n = 0
    /\ call.name = "update"
    /\ call.args[1] = 0
    /\ exc.type = "IndexError"
    /\ seg = (0 :> None)

====
